---- MODULE Spec2Model ----
(***************************************************************************)
(* Model of the container provisioning tool (package main, the complete   *)
(* variant whose run() ends with startContainer and printUsage).           *)
(*                                                                         *)
(* Go strings are modelled as sequences of one-character strings, so that  *)
(* strings.Contains and strings.Split are computed, not assumed.           *)
(***************************************************************************)
EXTENDS Integers, Sequences, FiniteSets, TLC

\* ------------------------------------------------------------------ bounds

\* Largest number of images the daemon lists (resolution specification).
MaxImages == 2

\* Largest number of repository:tag labels one listed image carries.
MaxTags == 1

\* ----------------------------------------------------------------- strings

\* strings.Contains(s, sub)
Contains(s, sub) ==
    \E i \in 0..(Len(s) - Len(sub)) : SubSeq(s, i + 1, i + Len(sub)) = sub

\* strings.Split(s, sep) for a one-character separator: all fields, in order.
RECURSIVE Split(_, _)
Split(s, sep) ==
    IF \A i \in 1..Len(s) : s[i] # sep
    THEN <<s>>
    ELSE LET i == CHOOSE k \in 1..Len(s) :
                      s[k] = sep /\ \A j \in 1..(k - 1) : s[j] # sep
         IN  <<SubSeq(s, 1, i - 1)>> \o Split(SubSeq(s, i + 1, Len(s)), sep)

\* ------------------------------------------------------------------- paths

\* A path is a string, written as the sequence of its pieces: "/" and the
\* names between. The paths the program is given are clean: no trailing or
\* doubled '/', and "." only as the whole path.
IsAbs(path) == Len(path) > 0 /\ path[1] = "/"

\* filepath.Join(a, b) on clean paths: empty elements are ignored, the
\* result is cleaned, so "." joined with b is b and a joined with "." is a.
Join(a, b) ==
    IF Len(a) = 0 THEN b
    ELSE IF Len(b) = 0 THEN a
    ELSE IF a = <<".">> THEN b
    ELSE IF b = <<".">> THEN a
    ELSE IF a = <<"/">> THEN a \o b
    ELSE a \o <<"/">> \o b

\* filepath.Abs(path) in a process whose working directory is wd.
Abs(path, wd) == IF IsAbs(path) THEN path ELSE Join(wd, path)

\* The directory that holds the file at absolute path `path`.
Dir(path) == IF Len(path) <= 2 THEN <<"/">> ELSE SubSeq(path, 1, Len(path) - 2)

\* The directories MkdirAll(path) makes sure exist: path and every prefix
\* of it that ends before a '/'.
MkdirAll(path) ==
    { SubSeq(path, 1, i) : i \in { k \in 1..Len(path) :
                                      k = Len(path) \/ (k > 1 /\ path[k + 1] = "/") } }

\* ------------------------------------------------------- program constants

\* var project
project == {"konrad", "higgs", "racdb"}

\* Mutant: each project kind has a home of its own.
homeOfKind ==
    [ konrad |-> "/home/shinto/konrad", higgs |-> "/home/shinto/higgs",
      racdb |-> "/home/shinto/racdb" ]

\* var home: the per-project home path
home == [k \in project |-> "/home/shinto/host"]

\* var shell: candidate shell name -> path inside the image
shell == [zsh |-> "/bin/zsh", bash |-> "/bin/bash", sh |-> "/bin/sh"]

\* var pgfiles: identity file name -> path inside the image
pgfiles == [passwd |-> "/etc/passwd", group |-> "/etc/group"]

\* var imageRepository: "compute-deployer_dev_<user>" for every project kind.
\* The literal prefix is abbreviated to "d_" and the host user name to "u".
imageRepository == [k \in project |-> <<"d", "_", "u">>]

\* var srcPath: the source tree of each project kind under the base
\* directory (abbreviated to one directory name each).
srcPath == [konrad |-> <<"k">>, higgs |-> <<"g">>, racdb |-> <<"r">>]

\* var subDirs
subDirs == [log |-> <<"log">>, src |-> <<"src">>]

\* os.Getwd() when the program starts.
Getwd == <<"/", "c">>

\* getTempDir(): "cc_" and nine random digits, a name relative to Getwd.
getTempDir == <<"t">>

\* getUserInfo(uid), getUserInfo(gid): the ids of the user running the tool.
getUserInfoUid == 500

getUserInfoGid == 600

\* shellPriority of checkShell: zsh preferred, then bash, then sh
shellPriority == <<"zsh", "bash", "sh">>

\* -------------------------------------------------- what the daemon can hold

\* Every image id the daemon reports is "sha256:" followed by hex digits.
sha256 == <<"s", "h", "a", "2", "5", "6", ":">>

ImageIds ==
    { sha256 \o <<"a", "b">>, sha256 \o <<"b", "c">>, sha256 \o <<"c", "d">> }

\* repository:tag labels, each with at least one ':'.
Labels ==
    { <<"d", "_", "u", ":", "l">>,                        \* d_u:l
      <<"a", "b", ":", "l">>,                             \* ab:l
      <<"h", ":", "5", "/", "d", "_", "u", ":", "l">> }   \* h:5/d_u:l

\* --imageid values: none, or a fragment of an id.
ImageIdOpts == { <<>>, <<"a", "b">>, <<"b">>, <<"e">> }

\* --tag values
TagOpts == { <<"l">>, <<"o">> }

\* Sequences over S of length at most n.
SeqUpTo(S, n) == UNION { [1..k -> S] : k \in 0..n }

\* types.ImageSummary: the fields the program reads.
Images(t) == [ID : ImageIds, RepoTags : SeqUpTo(Labels, t)]

\* Image lists of at most n images with pairwise distinct ids.
ImageListsOf(n, t) ==
    { l \in SeqUpTo(Images(t), n) :
        \A i, j \in 1..Len(l) : i # j => l[i].ID # l[j].ID }

\* The zero value of types.ImageSummary.
NoImage == [ID |-> <<>>, RepoTags |-> <<>>]

\* ------------------------------------------------------------ setImageId

\* The label test of setImageId: tagTmp := strings.Split(name, ":"), then
\* Contains(tagTmp[0], ImageRepository) and Contains(tagTmp[1], Tag).
\* (Go indexes from 0; a label without ':' makes tagTmp[1] panic.)
labelPanics(name) == Len(Split(name, ":")) < 2

\* Mutant: the repository part is not tested.
labelOnlyTag(name, ImageRepository, Tag) ==
    Contains(Split(name, ":")[2], Tag)

\* The two substring tests on tagTmp[0] and tagTmp[1].
labelMatches(name, ImageRepository, Tag) ==
    /\ Contains(Split(name, ":")[1], ImageRepository)
    /\ Contains(Split(name, ":")[2], Tag)

\* The inner loop over image.RepoTags: cur is p.Image on entry.
RECURSIVE scanRepoTags(_, _, _, _, _)
scanRepoTags(image, tags, ImageRepository, Tag, cur) ==
    IF tags = <<>> THEN cur
    ELSE scanRepoTags(image, Tail(tags), ImageRepository, Tag,
                      IF labelMatches(Head(tags), ImageRepository, Tag)
                      THEN image ELSE cur)

\* Mutant: the id test does not return, the scan goes on.
RECURSIVE scanNoReturn(_, _, _, _)
scanNoReturn(ilist, ImageRepository, Tag, cur) ==
    IF ilist = <<>> THEN cur
    ELSE LET image == Head(ilist) IN
         scanNoReturn(Tail(ilist), ImageRepository, Tag,
                      scanRepoTags(image, image.RepoTags, ImageRepository, Tag,
                                   IF Contains(image.ID, ImageRepository)
                                   THEN image ELSE cur))

\* Mutant: the first matching label ends the scan.
RECURSIVE scanFirstLabel(_, _, _, _)
scanFirstLabel(ilist, ImageRepository, Tag, cur) ==
    IF ilist = <<>> THEN cur
    ELSE LET image == Head(ilist) IN
         IF Contains(image.ID, ImageRepository) THEN image
         ELSE IF \E i \in 1..Len(image.RepoTags) :
                     labelMatches(image.RepoTags[i], ImageRepository, Tag)
              THEN image
              ELSE scanFirstLabel(Tail(ilist), ImageRepository, Tag, cur)

\* The outer loop of setImageId over the image list: the value of p.Image
\* when the loop is left, by return or by exhaustion.
RECURSIVE scanImages(_, _, _, _)
scanImages(ilist, ImageRepository, Tag, cur) ==
    IF ilist = <<>> THEN cur
    ELSE LET image == Head(ilist) IN
         IF Contains(image.ID, ImageRepository) THEN image
         ELSE scanImages(Tail(ilist), ImageRepository, Tag,
                         scanRepoTags(image, image.RepoTags,
                                      ImageRepository, Tag, cur))

\* Whether some label reached by the scan has no ':' (index out of range).
RECURSIVE scanPanics(_, _)
scanPanics(ilist, ImageRepository) ==
    IF ilist = <<>> THEN FALSE
    ELSE LET image == Head(ilist) IN
         IF Contains(image.ID, ImageRepository) THEN FALSE
         ELSE \/ \E i \in 1..Len(image.RepoTags) : labelPanics(image.RepoTags[i])
              \/ scanPanics(Tail(ilist), ImageRepository)

\* Mutant: no check after the scan.
noImagePanicsNever(image) == FALSE

\* The deferred check of setImageId: panic("No proper Image found in this host.")
noImagePanics(image) == image.ID = <<>>


\* ------------------------------------------------------------- checkShell

\* The set of keys of a sequence.
Range(f) == { f[i] : i \in DOMAIN f }

\* The first loop of checkShell: availableShell, built by visiting the keys
\* of `shell` in iteration order `order`; exists is the set of paths for
\* which inspectContainerFile answers true.
RECURSIVE availableShell(_, _)
availableShell(order, exists) ==
    IF order = <<>> THEN {}
    ELSE (IF shell[Head(order)] \in exists THEN {Head(order)} ELSE {})
         \cup availableShell(Tail(order), exists)

\* Mutant: the first candidate found in iteration order wins.
checkShellFirstFound(order, exists) ==
    IF availableShell(order, exists) = {} THEN ""
    ELSE order[CHOOSE i \in 1..Len(order) :
                   /\ shell[order[i]] \in exists
                   /\ \A j \in 1..(i - 1) : shell[order[j]] \notin exists]

\* Mutant: sh is assumed when nothing was found.
checkShellAssumeSh(order, exists) ==
    IF availableShell(order, exists) = {} THEN "sh"
    ELSE shellPriority[CHOOSE i \in 1..Len(shellPriority) :
             /\ shellPriority[i] \in availableShell(order, exists)
             /\ \A j \in 1..(i - 1) :
                    shellPriority[j] \notin availableShell(order, exists)]

\* The second loop of checkShell: the value given to p.Shell, or "" when
\* the function panics ("No proper shell in container available.").
checkShellPick(order, exists) ==
    IF availableShell(order, exists) = {} THEN ""
    ELSE shellPriority[CHOOSE i \in 1..Len(shellPriority) :
             /\ shellPriority[i] \in availableShell(order, exists)
             /\ \A j \in 1..(i - 1) :
                    shellPriority[j] \notin availableShell(order, exists)]

\* ---------------------------------------------------------------- check

\* check(e, msg): whether it panics.
check(e) == e

\* ------------------------------------------------------------------ run

\* Mutant: repoconfig.json is written before the probe is removed.
runConfigFirst ==
    << "createDockerClient", "setImageId", "setSourceDir", "createWorkDir",
       "createContainerInit", "checkShell", "rewriteUidGid",
       "touchRepoconfigJson", "removeContainer", "copyInstallJson",
       "createContainer", "startContainer", "printUsage" >>

\* The body of Project.run: its calls, in order. createContainerInit is
\* createContainer(true), createContainer is createContainer(false).
run ==
    << "createDockerClient", "setImageId", "setSourceDir", "createWorkDir",
       "createContainerInit", "checkShell", "rewriteUidGid",
       "removeContainer", "touchRepoconfigJson", "copyInstallJson",
       "createContainer", "startContainer", "printUsage" >>

\* Mutant: a container that was started is created and started again.
nextStepAgain(s) ==
    LET i == CHOOSE k \in 1..Len(run) : run[k] = s
    IN  IF s = "startContainer" THEN "createContainer"
        ELSE IF i = Len(run) THEN "done" ELSE run[i + 1]

\* The call that follows call s in run, "done" after the last.
nextStep(s) ==
    LET i == CHOOSE k \in 1..Len(run) : run[k] = s
    IN  IF i = Len(run) THEN "done" ELSE run[i + 1]


\* ------------------------------------------------------------------ state

VARIABLES
    pc,           \* the call of main/run about to be made, "done" or "aborted"
    p,            \* the Project struct: options and the fields run fills in
    ilist,        \* the images the daemon lists
    containers,   \* the containers on the daemon
    nextId,       \* the id the daemon gives the next container it creates
    imageShells,  \* the candidate shell paths present in the image
    host,         \* the host files of the working directory
    log,          \* every daemon or host call made so far, with its outcome
    rand,         \* var rand uint32, as <<high 16 bits, low 16 bits>>
    tdir          \* getTempDir's locals: i, nconflict and name

vars == <<pc, p, ilist, containers, nextId, imageShells, host, log, rand, tdir>>

\* One call: its name, what it is about, the container it targets (0: none)
\* and whether it returned an error; req holds the request of a
\* ContainerCreate call (config, host configuration, container name) and
\* is empty for every other call.
Entry(op, arg, cid, err) ==
    [op |-> op, arg |-> arg, cid |-> cid, err |-> err, req |-> <<>>]

\* An explicit panic(msg) of the code, or a runtime panic.
Panic(msg) == Entry("panic", msg, 0, TRUE)

ShellPaths == { shell[k] : k \in DOMAIN shell }

\* The orders in which a Go map with key set S can be iterated.
Orders(S) ==
    { f \in [1..Cardinality(S) -> S] : \A i, j \in DOMAIN f : i # j => f[i] # f[j] }

containerExists(cid) == \E c \in containers : c.id = cid

\* strconv.Itoa for n >= 0
Digit == <<"0", "1", "2", "3", "4", "5", "6", "7", "8", "9">>

RECURSIVE Itoa(_)
Itoa(n) ==
    IF n < 10 THEN <<Digit[n + 1]>>
    ELSE Itoa(n \div 10) \o <<Digit[(n % 10) + 1]>>

\* Itoa's digits as one string
RECURSIVE Chars(_)
Chars(digits) ==
    IF digits = <<>> THEN "" ELSE Head(digits) \o Chars(Tail(digits))

\* r*1664525 + 1013904223 in uint32, on the two 16-bit halves of r:
\* 1664525 = 25 * 2^16 + 26125 and 1013904223 = 15470 * 2^16 + 62303.
lcg(r) ==
    LET low  == r[2] * 26125 + 62303
        high == ((r[1] * 26125) % 65536) + ((r[2] * 25) % 65536)
                    + 15470 + (low \div 65536)
    IN  << high % 65536, low % 65536 >>

\* r % 1e9 for a uint32 r
mod1e9(r) ==
    LET half == (r[1] * 32768) % 1000000000
        high == (half * 2) % 1000000000
    IN  (high + r[2]) % 1000000000

\* The values reseed() returns: the clock and the process id make it any
\* uint32; these are the ones followed.
reseed ==
    { <<0, 0>>, <<0, 1>>, <<1, 0>>, <<12345, 6789>>, <<65535, 65535>> }

\* nextSuffix: the value it leaves in rand, when reseed() returns seed ...
nextRand(old, seed) == lcg(IF old = <<0, 0>> THEN seed ELSE old)

\* ... and the string it returns for that value: nine decimal digits.
nextSuffix(r) == Chars(Tail(Itoa(1000000000 + mod1e9(r))))

\* getTempDir's locals before its loop
TempZero == [i |-> 0, nconflict |-> 0, name |-> ""]

\* A host file that does not exist.
Absent == [exists |-> FALSE, data |-> <<>>]

\* /etc/passwd and /etc/group of the image, as lines of ':'-separated fields.
ImageEtc ==
    [ passwd |-> << <<"root", "x", <<"0">>, <<"0">>, "", "/root", "/bin/sh">> >>,
      group  |-> << <<"root", "x", <<"0">>, "">> >> ]

\* passwd and group left in a working directory by an earlier run.
StaleEtc ==
    [ passwd |-> << <<"old", "x", <<"7">>, <<"7">>, "", "/old", "/bin/sh">> >>,
      group  |-> << <<"old", "x", <<"7">>, "">> >> ]

\* The host: the files passwd, group, repoconfig.json and install_json.json
\* of the working directory, the directory the process is in, and the
\* directories that exist (by absolute path).
HostFresh ==
    [ passwd |-> Absent, group |-> Absent,
      repoconfig |-> Absent, install_json |-> Absent,
      cwd |-> Getwd, dirs |-> MkdirAll(Getwd) ]

HostReused ==
    [ passwd |-> [exists |-> TRUE, data |-> StaleEtc.passwd],
      group  |-> [exists |-> TRUE, data |-> StaleEtc.group],
      repoconfig |-> Absent, install_json |-> Absent,
      cwd |-> Getwd, dirs |-> MkdirAll(Getwd) ]

\* The directories createWorkDir asks for, for working directory w, in a
\* process that is in directory wd.
workDirs(w, wd) ==
    UNION { MkdirAll(Abs(Join(w, subDirs[v]), wd)) : v \in DOMAIN subDirs }

\* The hosts a run of project q can start on: a fresh one, or one whose
\* working directory an earlier run has left behind.
Hosts(q) ==
    { HostFresh,
      [HostReused EXCEPT !.dirs = @ \cup workDirs(q.Workdir, Getwd)] }

\* --workdir values: not given, absolute, the current directory, relative.
WorkdirOpts == { <<>>, <<"/", "w">>, <<".">>, <<"w">> }

\* --basedir values: absolute, relative.
BaseDirOpts == { <<"/", "b">>, <<"b">> }

\* --cmd: the default "tail -f /dev/null", abbreviated.
CmdOpts == { <<"t", " ", "-", "f">> }

\* struct Options as flags.Parse fills it in. --uid and --gid are 0 when
\* not given.
Options ==
    [ ImageId : ImageIdOpts, Tag : TagOpts, Project : project,
      Uname : {"dev", "ops"}, Uid : {1000, 0},
      Gname : {"dev", "staff"}, Gid : {1000, 0},
      Cname : {"deployer"}, Cmd : CmdOpts,
      NoproxyHosts : {"localhost,127.0.0.1", "repo.example"},
      Privilege : BOOLEAN, Root : BOOLEAN,
      Workdir : WorkdirOpts, BaseDir : BaseDirOpts ]

\* optParser: the defaults it fills in and the paths it rewrites. Workdir
\* defaults to a fresh directory under the current one; a Workdir that is
\* given goes through filepath.Join alone, which cleans it and no more.
optParser(opts) ==
    [ opts EXCEPT
        !.Cname   = IF opts.Cname = "" THEN "deployer_Jan02Mon3456" ELSE @,
        !.Gid     = IF opts.Gid = 0 THEN getUserInfoGid ELSE @,
        !.Uid     = IF opts.Uid = 0 THEN getUserInfoUid ELSE @,
        !.Workdir = IF Len(opts.Workdir) = 0 THEN Join(Getwd, getTempDir)
                    ELSE Join(opts.Workdir, <<>>),
        !.BaseDir = Abs(opts.BaseDir, Getwd) ]

\* var project Project: the zero values of the fields run fills in.
ProjectZero ==
    [ ImageRepository |-> <<>>, Image |-> NoImage, Container |-> 0,
      Shell |-> "", SourceDir |-> <<>> ]

\* The Project struct once main has copied the parsed options into it.
Projects ==
    { [ f \in DOMAIN o \cup DOMAIN ProjectZero |->
          IF f \in DOMAIN o THEN o[f] ELSE ProjectZero[f] ] :
      o \in { optParser(opts) : opts \in Options } }

\* The options every run of the pipeline and of image resolution is given
\* besides those it varies.
PlainOptions(q) ==
    /\ q.Uname = "dev" /\ q.Uid = 1000 /\ q.Gname = "dev" /\ q.Gid = 1000
    /\ q.NoproxyHosts = "localhost,127.0.0.1"
    /\ ~q.Privilege /\ ~q.Root
    /\ q.Workdir = Join(Getwd, getTempDir)
    /\ q.BaseDir = <<"/", "b">>

\* The pipeline is run on a daemon that lists nothing or one image, with
\* the default repository or the id fragment "ab", and tag "l".
PipelineLists ==
    { l \in ImageListsOf(1, 1) :
        \A i \in 1..Len(l) : /\ l[i].ID = sha256 \o <<"a", "b">>
                             /\ l[i].RepoTags = << <<"d", "_", "u", ":", "l">> >> }

PipelineProjects ==
    { q \in Projects : /\ q.Tag = <<"l">> /\ q.ImageId \in {<<>>, <<"a", "b">>}
                        /\ PlainOptions(q) }

Init ==
    /\ pc = "prepare"
    /\ p \in PipelineProjects
    /\ ilist \in PipelineLists
    /\ containers = {}
    /\ nextId = 1
    /\ imageShells \in SUBSET ShellPaths
    /\ host \in Hosts(p)
    /\ log = <<>>
    /\ rand = <<0, 0>>
    /\ tdir = TempZero

\* The runs of one project, on every set of shells of the image and on a
\* fresh and a reused host.
InitLive ==
    /\ pc = "prepare"
    /\ p \in { q \in PipelineProjects : q.Project = "konrad" }
    /\ ilist \in PipelineLists
    /\ containers = {}
    /\ nextId = 1
    /\ imageShells \in SUBSET ShellPaths
    /\ host \in Hosts(p)
    /\ log = <<>>
    /\ rand = <<0, 0>>
    /\ tdir = TempZero

\* The first name getTempDir draws, for a value of reseed()
firstName(seed) == "cc_" \o nextSuffix(nextRand(<<0, 0>>, seed))

\* getTempDir at the start of the program, rand still zero, in a current
\* directory that holds any of the names a first draw can give.
InitTemp ==
    /\ pc = "getTempDir"
    /\ p = ProjectZero
    /\ ilist = <<>>
    /\ containers = {}
    /\ nextId = 1
    /\ imageShells = {}
    /\ \E present \in SUBSET { firstName(seed) : seed \in reseed } :
         host = [HostFresh EXCEPT
                   !.dirs = @ \cup { Abs(<<name>>, Getwd) : name \in present }]
    /\ log = <<>>
    /\ rand = <<0, 0>>
    /\ tdir = TempZero

\* Image resolution on every image list within the bounds.
InitResolve ==
    /\ pc = "prepare"
    /\ p \in { q \in Projects : q.Project = "konrad" /\ PlainOptions(q) }
    /\ ilist \in ImageListsOf(MaxImages, MaxTags)
    /\ containers = {}
    /\ nextId = 1
    /\ imageShells = ShellPaths
    /\ host = HostFresh
    /\ log = <<>>
    /\ rand = <<0, 0>>
    /\ tdir = TempZero

\* The final container's request on every kind of working directory and
\* base directory, with and without the root and privileged flags, for two
\* identities, on a daemon that lists the one image of the project.
FinalProjects ==
    { q \in Projects :
        /\ q.Tag = <<"l">> /\ q.ImageId = <<>> /\ q.Project = "konrad"
        /\ \/ /\ q.Uname = "dev" /\ q.Uid = 1000
              /\ q.Gname = "dev" /\ q.Gid = 1000
              /\ q.NoproxyHosts = "localhost,127.0.0.1"
           \/ /\ q.Uname = "ops" /\ q.Uid = getUserInfoUid
              /\ q.Gname = "staff" /\ q.Gid = getUserInfoGid
              /\ q.NoproxyHosts = "repo.example" }

InitFinal ==
    /\ pc = "prepare"
    /\ p \in FinalProjects
    /\ ilist \in { l \in PipelineLists : Len(l) = 1 }
    /\ containers = {}
    /\ nextId = 1
    /\ imageShells = {"/bin/bash", "/bin/sh"}
    /\ host = HostFresh
    /\ log = <<>>
    /\ rand = <<0, 0>>
    /\ tdir = TempZero

\* ---------------------------------------------------------------- prepare

Prepare ==
    /\ pc = "prepare"
    /\ UNCHANGED <<rand, tdir>>
    /\ \E err \in BOOLEAN :
         /\ log' = Append(log, Entry("Stat", "InstallJson", 0, err))
         /\ pc' = IF check(err) THEN "aborted" ELSE run[1]
    /\ p' = [p EXCEPT !.ImageRepository =
                 IF Len(p.ImageId) # 0 THEN p.ImageId
                 ELSE imageRepository[p.Project]]
    /\ UNCHANGED <<ilist, containers, nextId, imageShells, host>>

CreateDockerClient ==
    /\ pc = "createDockerClient"
    /\ UNCHANGED <<rand, tdir>>
    /\ \E err \in BOOLEAN :
         /\ log' = Append(log, Entry("NewEnvClient", "", 0, err))
         /\ pc' = IF check(err) THEN "aborted" ELSE nextStep("createDockerClient")
    /\ UNCHANGED <<p, ilist, containers, nextId, imageShells, host>>

SetImageId ==
    /\ pc = "setImageId"
    /\ UNCHANGED <<rand, tdir>>
    /\ \E err \in BOOLEAN :
         /\ IF check(err)
            THEN /\ log' = Append(log, Entry("ImageList", "", 0, err))
                 /\ pc' = "aborted"
                 /\ p' = p
            ELSE IF scanPanics(ilist, p.ImageRepository)
            THEN /\ log' = log \o << Entry("ImageList", "", 0, err),
                                     Panic("index out of range") >>
                 /\ pc' = "aborted"
                 /\ p' = p
            ELSE LET image == scanImages(ilist, p.ImageRepository, p.Tag, p.Image)
                 IN  /\ p' = [p EXCEPT !.Image = image]
                     /\ log' = log \o << Entry("ImageList", "", 0, err) >> \o
                                  (IF noImagePanics(image)
                                   THEN << Panic("No proper Image found in this host.") >>
                                   ELSE <<>>)
                     /\ pc' = IF noImagePanics(image) THEN "aborted"
                              ELSE nextStep("setImageId")
    /\ UNCHANGED <<ilist, containers, nextId, imageShells, host>>

\* srcDir of setSourceDir
srcDir == Join(p.BaseDir, srcPath[p.Project])

\* The stat of srcDir answers what the host holds at that path; when it is
\* a directory the host is known to hold it.
SetSourceDir ==
    /\ pc = "setSourceDir"
    /\ UNCHANGED <<rand, tdir>>
    /\ \E stat \in {"dir", "file", "missing"} :
         /\ log' = log \o << Entry("Stat", "srcDir", 0, stat = "missing") >> \o
                      (IF stat = "file"
                       THEN << Panic("Source is not a directory") >> ELSE <<>>)
         /\ pc' = IF check(stat = "missing") \/ stat # "dir" THEN "aborted"
                  ELSE nextStep("setSourceDir")
         /\ p' = IF stat = "dir" THEN [p EXCEPT !.SourceDir = srcDir] ELSE p
         /\ host' = IF stat = "dir"
                    THEN [host EXCEPT !.dirs = @ \cup MkdirAll(Abs(srcDir, host.cwd))]
                    ELSE host
    /\ UNCHANGED <<ilist, containers, nextId, imageShells>>

\* MkdirAll of Workdir/log and Workdir/src, then Chdir to Workdir, each
\* path resolved in the directory the process is in. The results of
\* MkdirAll and Chdir are discarded by the code.
CreateWorkDir ==
    /\ pc = "createWorkDir"
    /\ UNCHANGED <<rand, tdir>>
    /\ log' = log \o << Entry("MkdirAll", "subDirs", 0, FALSE),
                        Entry("Chdir", "Workdir", 0, FALSE) >>
    /\ host' = [host EXCEPT !.dirs = @ \cup workDirs(p.Workdir, host.cwd),
                            !.cwd  = Abs(p.Workdir, host.cwd)]
    /\ pc' = nextStep("createWorkDir")
    /\ UNCHANGED <<p, ilist, containers, nextId, imageShells>>


\* -------------------------------------------------------- createContainer

\* extractImageId: strings.Split(id, ":")[1]; panics on an id without ':'.
extractImageIdPanics(id) == Len(Split(id, ":")) < 2

extractImageId(id) == Split(id, ":")[2]

\* Mutant: the final container is created from the configured repository
\* name, not from the id of the image that was resolved.
prepareConfigOfRepository(init) ==
    [ Image      |-> IF init THEN extractImageId(p.Image.ID) ELSE p.ImageRepository,
      Entrypoint |-> Split(p.Cmd, " "),
      User       |-> IF init THEN <<>> ELSE <<"0", ":", "0">>,
      Env        |-> IF init THEN <<>>
                     ELSE << <<>>, <<>>, <<>>, <<>> >> \o
                          (IF p.Root THEN << <<"C_FORCE_ROOT=1">> >> ELSE <<>>) \o
                          << <<"no_proxy=", p.NoproxyHosts>> >> ]

\* Mutant: the probe is given the configuration of the final container.
prepareConfigOfFinal(init) ==
    [ Image      |-> extractImageId(p.Image.ID),
      Entrypoint |-> Split(p.Cmd, " "),
      User       |-> <<"0", ":", "0">>,
      Env        |-> << <<>>, <<>>, <<>>, <<>> >> \o
                     (IF p.Root THEN << <<"C_FORCE_ROOT=1">> >> ELSE <<>>) \o
                     << <<"no_proxy=", p.NoproxyHosts>> >> ]

\* Mutant: the container runs as the configured uid and gid unless --root.
prepareConfigAsUid(init) ==
    [ Image      |-> extractImageId(p.Image.ID),
      Entrypoint |-> Split(p.Cmd, " "),
      User       |-> IF init THEN <<>>
                     ELSE IF p.Root THEN <<"0", ":", "0">>
                     ELSE Itoa(p.Uid) \o <<":">> \o Itoa(p.Gid),
      Env        |-> IF init THEN <<>>
                     ELSE << <<>>, <<>>, <<>>, <<>> >> \o
                          (IF p.Root THEN << <<"C_FORCE_ROOT=1">> >> ELSE <<>>) \o
                          << <<"no_proxy=", p.NoproxyHosts>> >> ]

\* Mutant: C_FORCE_ROOT=1 is set whatever the root flag.
prepareConfigForceRoot(init) ==
    [ Image      |-> extractImageId(p.Image.ID),
      Entrypoint |-> Split(p.Cmd, " "),
      User       |-> IF init THEN <<>> ELSE <<"0", ":", "0">>,
      Env        |-> IF init THEN <<>>
                     ELSE << <<>>, <<>>, <<>>, <<>> >> \o << <<"C_FORCE_ROOT=1">> >> \o
                          << <<"no_proxy=", p.NoproxyHosts>> >> ]

\* prepareConfig(init): the container.Config of the create request. User
\* and Env keep their zero values for the probe. envStr starts as
\* make([]string, 4), four empty strings, and is appended to. A string of
\* Env is written as the sequence of its parts: none for the empty string,
\* the two parts of "no_proxy=" + p.NoproxyHosts.
prepareConfig(init) ==
    [ Image      |-> extractImageId(p.Image.ID),
      Entrypoint |-> Split(p.Cmd, " "),
      User       |-> IF init THEN <<>> ELSE <<"0", ":", "0">>,
      Env        |-> IF init THEN <<>>
                     ELSE << <<>>, <<>>, <<>>, <<>> >> \o
                          (IF p.Root THEN << <<"C_FORCE_ROOT=1">> >> ELSE <<>>) \o
                          << <<"no_proxy=", p.NoproxyHosts>> >> ]

\* mount.Mount of type bind, read-write, with
\* bindOptions.Propagation = mount.PropagationRPrivate.
Mount(source, target) ==
    [ Type |-> "bind", Source |-> source, Target |-> target,
      ReadOnly |-> FALSE, Propagation |-> "rprivate" ]

logMount == Mount(Join(p.Workdir, <<"log">>), "/var/log/deployer")

srcMount == Mount(p.SourceDir, "/home/shinto/deployer")

hostMount == Mount(p.Workdir, "/home/shinto/host")

passwdMount == Mount(Join(p.Workdir, <<"passwd">>), pgfiles["passwd"])

groupMount == Mount(Join(p.Workdir, <<"group">>), pgfiles["group"])

\* fmt.Sprintf("%s:%s", m.Source, m.Target)
bind(m) == <<m.Source, ":", m.Target>>

\* Mutant: the container is never privileged.
prepareHostConfigUnprivileged(init) ==
    IF init THEN <<>>
    ELSE << [ Binds      |-> << bind(logMount), bind(srcMount), bind(hostMount),
                                bind(passwdMount), bind(groupMount) >>,
              AutoRemove |-> TRUE,
              Privileged |-> FALSE,
              Mounts     |-> << logMount, srcMount, hostMount,
                                passwdMount, passwdMount >> ] >>

\* prepareHostConfig(init): the *container.HostConfig of the create
\* request, nil (the empty sequence) for the probe. Mounts lists
\* passwdMount twice and groupMount not at all.
prepareHostConfig(init) ==
    IF init THEN <<>>
    ELSE << [ Binds      |-> << bind(logMount), bind(srcMount), bind(hostMount),
                                bind(passwdMount), bind(groupMount) >>,
              AutoRemove |-> TRUE,
              Privileged |-> p.Privilege,
              Mounts     |-> << logMount, srcMount, hostMount,
                                passwdMount, passwdMount >> ] >>

\* Mutant: p.Container keeps the value it had.
containerKept(old, body) == old

\* p.Container = body
containerCreated(old, body) == body

\* createContainer(init): the daemon refuses a name that is in use.
CreateContainer(init) ==
    /\ pc = IF init THEN "createContainerInit" ELSE "createContainer"
    /\ UNCHANGED <<rand, tdir>>
    /\ IF extractImageIdPanics(p.Image.ID)
       THEN /\ pc' = "aborted"
            /\ log' = Append(log, Panic("index out of range"))
            /\ UNCHANGED <<p, containers, nextId>>
       ELSE \E fault \in BOOLEAN :
              LET err == fault \/ \E c \in containers : c.name = p.Cname
                  kind == IF init THEN "probe" ELSE "final"
              IN  /\ log' = Append(log,
                         [ Entry("ContainerCreate", kind,
                                 IF err THEN 0 ELSE nextId, err)
                           EXCEPT !.req = << [ config |-> prepareConfig(init),
                                               hostConfig |-> prepareHostConfig(init),
                                               name |-> p.Cname ] >> ])
                  /\ IF check(err)
                     THEN /\ pc' = "aborted"
                          /\ UNCHANGED <<p, containers, nextId>>
                     ELSE /\ containers' = containers \cup
                                {[ id |-> nextId, name |-> p.Cname, kind |-> kind,
                                   image |-> extractImageId(p.Image.ID),
                                   status |-> "created" ]}
                          /\ nextId' = nextId + 1
                          /\ p' = [p EXCEPT !.Container =
                                       containerCreated(p.Container, nextId)]
                          /\ pc' = nextStep(pc)
    /\ UNCHANGED <<ilist, imageShells, host>>

\* ------------------------------------------------------------- checkShell

\* inspectContainerFile(path): ContainerStatPath returned no error.
inspectContainerFile(path) ==
    containerExists(p.Container) /\ path \in imageShells

CheckShell ==
    /\ pc = "checkShell"
    /\ UNCHANGED <<rand, tdir>>
    /\ \E order \in Orders(DOMAIN shell) :
         LET exists == { path \in ShellPaths : inspectContainerFile(path) }
             pick   == checkShellPick(order, exists)
         IN  /\ log' = log \o
                   [ i \in 1..Len(order) |->
                       Entry("ContainerStatPath", shell[order[i]], p.Container,
                             shell[order[i]] \notin exists) ] \o
                   (IF pick = ""
                    THEN << Panic("No proper shell in container available.") >>
                    ELSE <<>>)
             /\ IF pick = ""
                THEN /\ pc' = "aborted"
                     /\ p' = p
                ELSE /\ pc' = nextStep("checkShell")
                     /\ p' = [p EXCEPT !.Shell = pick]
    /\ UNCHANGED <<ilist, containers, nextId, imageShells, host>>

\* ---------------------------------------------------------- rewriteUidGid

\* The hooks of rewriteUidGid: the line appended to each file.
hooks(k) ==
    IF k = "passwd"
    THEN <<p.Uname, "x", Itoa(p.Uid), Itoa(p.Gid), "", home[p.Project],
           shell[p.Shell]>>
    ELSE <<p.Gname, "x", Itoa(p.Gid), "">>

\* The calls of copyFileFromContainer that can fail.
FaultKinds == {"copy", "unpack", "open", "write"}

\* copyFileFromContainer(from, to, hook) on st = [host, log, panic], with the
\* calls named in faults failing. Only the error of CopyFromContainer is
\* checked; those of archive.CopyTo, os.OpenFile and fd.WriteString are not.
\* OpenFile has no O_CREATE, so it fails on a missing file; WriteString on
\* the nil file it then returns fails without writing.
copyFileFromContainer(st, from, to, hook, faults) ==
    LET e1 == "copy" \in faults \/ ~containerExists(p.Container)
        l1 == Append(st.log, Entry("CopyFromContainer", to, p.Container, e1))
        e2 == "unpack" \in faults
        f2 == IF e2 THEN st.host[to]
              ELSE [exists |-> TRUE, data |-> ImageEtc[to]]
        l2 == Append(l1, Entry("CopyTo", to, 0, e2))
        e3 == "open" \in faults \/ ~f2.exists
        l3 == Append(l2, Entry("OpenFile", to, 0, e3))
        e4 == e3 \/ "write" \in faults
        f4 == IF e4 THEN f2 ELSE [f2 EXCEPT !.data = Append(@, hook)]
        l4 == Append(l3, Entry("WriteString", to, 0, e4))
    IN  IF check(e1)
        THEN [host |-> st.host, log |-> l1, panic |-> TRUE]
        ELSE [host |-> [st.host EXCEPT ![to] = f4], log |-> l4, panic |-> FALSE]

\* The loop of rewriteUidGid over pgfiles, visited in iteration order `order`.
rewriteUidGid(order, faults) ==
    LET s0 == [host |-> host, log |-> log, panic |-> FALSE]
        s1 == copyFileFromContainer(s0, pgfiles[order[1]], order[1],
                                    hooks(order[1]), faults[order[1]])
    IN  IF s1.panic THEN s1
        ELSE copyFileFromContainer(s1, pgfiles[order[2]], order[2],
                                   hooks(order[2]), faults[order[2]])

RewriteUidGid ==
    /\ pc = "rewriteUidGid"
    /\ UNCHANGED <<rand, tdir>>
    /\ \E order \in Orders(DOMAIN pgfiles) :
       \E faults \in [DOMAIN pgfiles -> SUBSET FaultKinds] :
         LET r == rewriteUidGid(order, faults)
         IN  /\ host' = r.host
             /\ log' = r.log
             /\ pc' = IF r.panic THEN "aborted" ELSE nextStep("rewriteUidGid")
    /\ UNCHANGED <<p, ilist, containers, nextId, imageShells>>

\* -------------------------------------------------------- removeContainer

\* Mutant: the error of ContainerRemove is dropped.
removeErrIgnored(err) == FALSE

\* check(err, "Remove container failed") after ContainerRemove.
removeErrChecked(err) == check(err)

RemoveContainer ==
    /\ pc = "removeContainer"
    /\ UNCHANGED <<rand, tdir>>
    /\ \E fault \in BOOLEAN :
         LET err == fault \/ ~containerExists(p.Container)
         IN  /\ log' = Append(log, Entry("ContainerRemove", "", p.Container, err))
             /\ containers' = IF err THEN containers
                              ELSE { c \in containers : c.id # p.Container }
             /\ pc' = IF removeErrChecked(err) THEN "aborted"
                      ELSE nextStep("removeContainer")
    /\ UNCHANGED <<p, ilist, nextId, imageShells, host>>

\* ------------------------------------------------ files of the working dir

\* The document touchRepoconfigJson marshals.
RepoJson == <<"repo_base_url", "logstash host", "logstash port">>

TouchRepoconfigJson ==
    /\ pc = "touchRepoconfigJson"
    /\ UNCHANGED <<rand, tdir>>
    /\ \E fault \in {"none", "create", "write"} :
         /\ log' = log \o
               (IF fault = "create"
                THEN << Entry("Create", "repoconfig", 0, TRUE) >>
                ELSE << Entry("Create", "repoconfig", 0, FALSE),
                        Entry("Write", "repoconfig", 0, fault = "write") >>)
         /\ host' = [host EXCEPT !.repoconfig =
                        IF fault = "create" THEN @
                        ELSE [exists |-> TRUE,
                              data |-> IF fault = "write" THEN <<>> ELSE RepoJson]]
         /\ pc' = IF check(fault # "none") THEN "aborted"
                  ELSE nextStep("touchRepoconfigJson")
    /\ UNCHANGED <<p, ilist, containers, nextId, imageShells>>

\* installJsonFile of copyInstallJson: Workdir/install_json.json, a path
\* that os.Create resolves in the directory the process is in.
installJsonFile == Join(p.Workdir, <<"install_json.json">>)

\* os.Create fails when the directory of the file does not exist.
CopyInstallJson ==
    /\ pc = "copyInstallJson"
    /\ UNCHANGED <<rand, tdir>>
    /\ \E fault \in IF Dir(Abs(installJsonFile, host.cwd)) \in host.dirs
                    THEN {"none", "open", "create", "copy"}
                    ELSE {"open", "create"} :
         /\ log' = log \o
               (IF fault = "open"
                THEN << Entry("Open", "InstallJson", 0, TRUE) >>
                ELSE IF fault = "create"
                THEN << Entry("Open", "InstallJson", 0, FALSE),
                        Entry("Create", "install_json", 0, TRUE) >>
                ELSE << Entry("Open", "InstallJson", 0, FALSE),
                        Entry("Create", "install_json", 0, FALSE),
                        Entry("Copy", "install_json", 0, fault = "copy") >>)
         /\ host' = [host EXCEPT !.install_json =
                        IF fault \in {"open", "create"} THEN @
                        ELSE [exists |-> TRUE,
                              data |-> IF fault = "copy" THEN <<>>
                                       ELSE <<"install_json">>]]
         /\ pc' = IF check(fault # "none") THEN "aborted"
                  ELSE nextStep("copyInstallJson")
    /\ UNCHANGED <<p, ilist, containers, nextId, imageShells>>

\* --------------------------------------------------------- startContainer

\* Mutant: the start is acknowledged and the container is left as it was.
ContainerStartNoop(cs, cid, err) == cs

\* Mutant: a container that cannot be started is removed.
ContainerStartOrRemove(cs, cid, err) ==
    IF err THEN { c \in cs : c.id # cid }
    ELSE { IF c.id = cid THEN [c EXCEPT !.status = "running"] ELSE c : c \in cs }

\* The containers of the daemon after cli.ContainerStart on cid; the
\* check that follows a failure panics and undoes nothing.
ContainerStart(cs, cid, err) ==
    IF err THEN cs
    ELSE { IF c.id = cid THEN [c EXCEPT !.status = "running"] ELSE c : c \in cs }

StartContainer ==
    /\ pc = "startContainer"
    /\ UNCHANGED <<rand, tdir>>
    /\ \E fault \in BOOLEAN :
         LET err == fault \/ ~containerExists(p.Container)
         IN  /\ log' = Append(log, Entry("ContainerStart", "", p.Container, err))
             /\ containers' = ContainerStart(containers, p.Container, err)
             /\ pc' = IF check(err) THEN "aborted"
                      ELSE nextStep("startContainer")
    /\ UNCHANGED <<p, ilist, nextId, imageShells, host>>

PrintUsage ==
    /\ pc = "printUsage"
    /\ UNCHANGED <<rand, tdir>>
    /\ pc' = nextStep("printUsage")
    /\ UNCHANGED <<p, ilist, containers, nextId, imageShells, host, log>>

\* ------------------------------------------------------- specifications

\* main up to the creation of the probe container.
\* os.Stat(name): nil when name is in the current directory, the error of
\* a missing file when it is not.
Stat(name) ==
    IF Abs(<<name>>, host.cwd) \in host.dirs THEN "nil" ELSE "ENOENT"

\* os.IsExist(err): err says that a file or directory already exists.
IsExist(err) == err \in {"EEXIST", "ENOTEMPTY"}

\* getTempDir: one pass of its loop, or the return after the last pass.
GetTempDir ==
    /\ pc = "getTempDir"
    /\ UNCHANGED <<p, ilist, containers, nextId, imageShells, host>>
    /\ IF tdir.i >= 10000
       THEN /\ pc' = "returned"
            /\ UNCHANGED <<log, rand, tdir>>
       ELSE \E seed \in reseed, again \in reseed :
              LET r == nextRand(rand, seed)
                  name == "cc_" \o nextSuffix(r)
                  err == Stat(name)
                  nconflict == tdir.nconflict + 1
              IN  /\ log' = Append(log, Entry("Stat", name, 0, err # "nil"))
                  /\ IF IsExist(err)
                     THEN /\ rand' = IF nconflict > 10 THEN again ELSE r
                          /\ tdir' = [i |-> tdir.i + 1, nconflict |-> nconflict,
                                      name |-> name]
                          /\ pc' = pc
                     ELSE /\ rand' = r
                          /\ tdir' = [tdir EXCEPT !.name = name]
                          /\ pc' = "returned"

NextTemp == GetTempDir

NextResolve ==
    \/ Prepare
    \/ CreateDockerClient
    \/ SetImageId
    \/ SetSourceDir
    \/ CreateWorkDir
    \/ CreateContainer(TRUE)

\* main: prepare, then run to its end.
Next ==
    \/ Prepare
    \/ CreateDockerClient
    \/ SetImageId
    \/ SetSourceDir
    \/ CreateWorkDir
    \/ CreateContainer(TRUE)
    \/ CheckShell
    \/ RewriteUidGid
    \/ RemoveContainer
    \/ TouchRepoconfigJson
    \/ CopyInstallJson
    \/ CreateContainer(FALSE)
    \/ StartContainer
    \/ PrintUsage

Spec == Init /\ [][Next]_vars

SpecResolve == InitResolve /\ [][NextResolve]_vars

SpecFinal == InitFinal /\ [][Next]_vars

\* main is one sequential process: as long as a call of run is left to
\* make, it is made, every call returning with success or failure.
SpecTemp == InitTemp /\ [][NextTemp]_vars

SpecLive == InitLive /\ [][Next]_vars /\ WF_vars(Next)


\* ------------------------------------------------------ reading the log

\* A call that failed. ContainerStatPath answers "no such path" with an
\* error: that is an answer, not a failure.
Failed(e) == e.err /\ e.op # "ContainerStatPath"

NoFailure == \A i \in 1..Len(log) : ~Failed(log[i])

\* The number of calls in the log that satisfy Test.
Count(Test(_)) == Cardinality({ i \in 1..Len(log) : Test(log[i]) })

IsOp(e, op) == e.op = op

IsCreate(e, kind) == e.op = "ContainerCreate" /\ e.arg = kind

IdentityOps == {"CopyFromContainer", "CopyTo", "OpenFile", "WriteString"}

\* The state of the single-run state machine that a call belongs to.
Milestone(e) ==
    CASE e.op = "ImageList" -> "IMAGE_RESOLVED"
      [] IsCreate(e, "probe") -> "PROBE_UP"
      [] e.op = "ContainerStatPath" -> "SHELL_KNOWN"
      [] e.op \in IdentityOps -> "IDENTITY_WRITTEN"
      [] e.op = "ContainerRemove" -> "PROBE_DOWN"
      [] e.op \in {"Create", "Write"} /\ e.arg = "repoconfig" -> "CONFIG_WRITTEN"
      [] IsCreate(e, "final") -> "FINAL_UP"
      [] e.op = "ContainerStart" -> "STARTED"
      [] OTHER -> ""

\* The milestones of a log in order, consecutive repetitions merged.
RECURSIVE Stages(_)
Stages(l) ==
    IF l = <<>> THEN <<>>
    ELSE LET rest == Stages(Tail(l))
             m    == Milestone(Head(l))
         IN  IF m = "" THEN rest
             ELSE IF rest # <<>> /\ Head(rest) = m THEN rest
             ELSE <<m>> \o rest

AllStages ==
    << "IMAGE_RESOLVED", "PROBE_UP", "SHELL_KNOWN", "IDENTITY_WRITTEN",
       "PROBE_DOWN", "CONFIG_WRITTEN", "FINAL_UP", "STARTED" >>

\* A host identity file holds the image's content and then the one line.
Complete(k) ==
    /\ host[k].exists
    /\ host[k].data = Append(ImageEtc[k], hooks(k))

\* ------------------------------------------------------------------ C1

\* C1: a run in which no call fails never aborts, and when it has ended its
\* log goes through the eight steps in the order image resolved, probe
\* created, shell detected, identity files written, probe removed,
\* repoconfig written, final container created, final container started,
\* each step once: one image listing, one create per container, one stat
\* per candidate shell, one copy/unpack/open/write per identity file, one
\* removal, one repoconfig write, one start.
C1_RunOrder ==
    /\ NoFailure => pc # "aborted"
    /\ (pc = "done" /\ NoFailure) =>
          /\ Stages(log) = AllStages
          /\ Count(LAMBDA e : IsOp(e, "ImageList")) = 1
          /\ Count(LAMBDA e : IsCreate(e, "probe")) = 1
          /\ Count(LAMBDA e : IsCreate(e, "final")) = 1
          /\ \A path \in ShellPaths :
                Count(LAMBDA e : IsOp(e, "ContainerStatPath") /\ e.arg = path) = 1
          /\ \A k \in DOMAIN pgfiles : \A op \in IdentityOps :
                Count(LAMBDA e : IsOp(e, op) /\ e.arg = k) = 1
          /\ Count(LAMBDA e : IsOp(e, "ContainerRemove")) = 1
          /\ Count(LAMBDA e : IsOp(e, "Write") /\ e.arg = "repoconfig") = 1
          /\ Count(LAMBDA e : IsOp(e, "ContainerStart")) = 1
          /\ \E c \in containers : c.kind = "final" /\ c.status = "running"

\* C1 witness: a run without failure has ended, started.
C1_Witness ==
    /\ pc = "done"
    /\ NoFailure
    /\ log[Len(log)].op = "ContainerStart"

\* ------------------------------------------------------------------ C2

\* C2: a call that fails is the last call of the run and leaves it aborted:
\* nothing is executed after a failure at any step.
C2_FailureStopsRun ==
    \A i \in 1..Len(log) :
        Failed(log[i]) => (i = Len(log) /\ pc = "aborted")

\* ------------------------------------------------------------------ C3

\* C3: when the copy-out, the unpack, the open or the write of an identity
\* file fails the run aborts and no final container is created; a final
\* container is only ever created with both host identity files complete.
C3_IdentityFailureAborts ==
    /\ (\E i \in 1..Len(log) : log[i].op \in IdentityOps /\ log[i].err) =>
          (pc = "aborted" /\ Count(LAMBDA e : IsCreate(e, "final")) = 0)
    /\ Count(LAMBDA e : IsCreate(e, "final")) > 0 =>
          (Complete("passwd") /\ Complete("group"))

\* ------------------------------------------------------------------ C4

RemoveFailed == \E i \in 1..Len(log) : log[i].op = "ContainerRemove" /\ log[i].err

\* C4 as stated: a failed removal of the probe does not abort the run.
C4_RemoveFailureContinues == RemoveFailed => pc # "aborted"

\* C4 amended: a failed removal of the probe is the last call of the run and
\* aborts it: repoconfig.json is not written, no final container is created
\* and none is started, and the probe is still on the daemon.
C4_RemoveFailureAborts ==
    RemoveFailed =>
        /\ pc = "aborted"
        /\ log[Len(log)].op = "ContainerRemove"
        /\ ~host.repoconfig.exists
        /\ Count(LAMBDA e : IsCreate(e, "final")) = 0
        /\ Count(LAMBDA e : IsOp(e, "ContainerStart")) = 0
        /\ \A c \in containers : c.kind = "probe"

\* C4 witness: the removal failed after the shell was detected and both
\* identity files were written completely.
C4_Witness ==
    /\ RemoveFailed
    /\ p.Shell # ""
    /\ Complete("passwd") /\ Complete("group")

\* ------------------------------------------------------------------ C5

\* The fixed order of preference: zsh, then bash, then sh.
PriorityRank == [zsh |-> 1, bash |-> 2, sh |-> 3]

Statted == \E i \in 1..Len(log) : log[i].op = "ContainerStatPath"

C6_NoShellAborts ==
    imageShells = {} =>
        /\ p.Shell = ""
        /\ Statted => pc = "aborted"
        /\ Count(LAMBDA e : e.op \in IdentityOps) = 0
        /\ Count(LAMBDA e : IsCreate(e, "final")) = 0
        /\ host.passwd \in {HostFresh.passwd, HostReused.passwd}
        /\ host.group \in {HostFresh.group, HostReused.group}

\* C6 witness: all three candidates were statted, none exists, the run
\* ended with the panic of checkShell.
C6_Witness ==
    /\ imageShells = {}
    /\ Count(LAMBDA e : IsOp(e, "ContainerStatPath") /\ e.err) = 3
    /\ pc = "aborted"
    /\ log[Len(log)] = Panic("No proper shell in container available.")


\* ----------------------------------------------- reading image resolution

\* The daemon has answered the image listing.
ImageListed == \E i \in 1..Len(log) : log[i].op = "ImageList" /\ ~log[i].err

\* The image listing was asked for.
ImageListAsked == \E i \in 1..Len(log) : log[i].op = "ImageList"

\* The string the options configure for the scan: the explicit image id
\* when one is given, else the repository of the project kind.
Configured ==
    IF p.ImageId # <<>> THEN p.ImageId ELSE <<"d", "_", "u">>

\* A label read as repository:tag: its repository part contains repo and
\* its tag part contains tag. The parts are the first two ':'-separated
\* fields of the label.
RepoTagMatch(label, repo, tag) ==
    \E i \in 1..Len(label) :
        /\ label[i] = ":"
        /\ \A j \in 1..(i - 1) : label[j] # ":"
        /\ Contains(SubSeq(label, 1, i - 1), repo)
        /\ LET rest == SubSeq(label, i + 1, Len(label))
               end  == IF \E k \in 1..Len(rest) : rest[k] = ":"
                       THEN (CHOOSE k \in 1..Len(rest) :
                                /\ rest[k] = ":"
                                /\ \A j \in 1..(k - 1) : rest[j] # ":") - 1
                       ELSE Len(rest)
           IN  Contains(SubSeq(rest, 1, end), tag)

\* The positions of the listed images that carry a matching label.
MatchIdx ==
    { i \in 1..Len(ilist) :
        \E j \in 1..Len(ilist[i].RepoTags) :
            RepoTagMatch(ilist[i].RepoTags[j], Configured, p.Tag) }

\* The positions of the listed images whose id contains the explicit id.
IdIdx == { i \in 1..Len(ilist) : Contains(ilist[i].ID, p.ImageId) }

\* ------------------------------------------------------------------ C7

\* C7: with an explicit image id that is a substring of the id of exactly
\* one listed image, the image selected is that one, wherever it stands in
\* the list and whatever labels the other images carry.
C7_UniqueIdMatch ==
    (p.ImageId # <<>> /\ ImageListed /\ Cardinality(IdIdx) = 1) =>
        \A i \in IdIdx : p.Image = ilist[i]

\* C7 witness: the only image whose id contains the explicit id stands
\* second, behind an image with a label that matches the id string and the
\* tag; the second image was selected.
C7_Witness ==
    /\ p.ImageId # <<>>
    /\ ImageListed
    /\ IdIdx = {2}
    /\ 1 \in MatchIdx
    /\ p.Image = ilist[2]

\* ------------------------------------------------------------------ C8

C10_NoCandidateAborts ==
    (/\ ImageListAsked
     /\ \A i \in 1..Len(ilist) : ~Contains(ilist[i].ID, Configured)
     /\ MatchIdx = {}) =>
        /\ pc = "aborted"
        /\ p.Image = NoImage
        /\ containers = {}
        /\ Count(LAMBDA e : IsOp(e, "ContainerCreate")) = 0

\* C10 witness: the daemon listed two images, none a candidate, and the
\* run ended with the panic of setImageId.
C10_Witness ==
    /\ ImageListed
    /\ Len(ilist) = 2
    /\ \A i \in 1..Len(ilist) :
          ~Contains(ilist[i].ID, Configured) /\ ilist[i].RepoTags # <<>>
    /\ MatchIdx = {}
    /\ pc = "aborted"
    /\ log[Len(log)] = Panic("No proper Image found in this host.")


\* ------------------------------------------------ reading create requests

\* The positions of the log at which a container of this kind was asked for.
CreateIdx(kind) == { i \in 1..Len(log) : IsCreate(log[i], kind) }

\* The container.Config and the HostConfig pointer of the request at i.
ConfigAt(i) == log[i].req[1].config

HostConfigAt(i) == log[i].req[1].hostConfig

\* ----------------------------------------------------------------- C11

\* The line the identity rewrite is to append to each file: for passwd
\* uname:x:uid:gid::home:shell-path, for group gname:x:gid: .
IdentityLine ==
    [ passwd |-> << p.Uname, "x", Itoa(p.Uid), Itoa(p.Gid), "",
                    "/home/shinto/host", shell[p.Shell] >>,
      group  |-> << p.Gname, "x", Itoa(p.Gid), "" >> ]

\* C11: once the final container has been asked for, each of the host files
\* passwd and group of the working directory exists and holds the content
\* of the image's file, unchanged, followed by exactly the one identity
\* line of that file and nothing else.
C11_IdentityFilesAppended ==
    CreateIdx("final") # {} =>
        \A k \in {"passwd", "group"} :
            /\ host[k].exists
            /\ host[k].data = ImageEtc[k] \o << IdentityLine[k] >>

\* ----------------------------------------------------------------- C12

\* The five bind mounts of the final container for working directory W and
\* source directory S.
FiveMounts(W, S) ==
    { [ Type |-> "bind", ReadOnly |-> FALSE, Propagation |-> "rprivate",
        Source |-> m[1], Target |-> m[2] ] :
      m \in { << Join(W, <<"log">>), "/var/log/deployer" >>,
              << S, "/home/shinto/deployer" >>,
              << W, "/home/shinto/host" >>,
              << Join(W, <<"passwd">>), "/etc/passwd" >>,
              << Join(W, <<"group">>), "/etc/group" >> } }

\* C12: the mount list of every create request for the final container
\* holds exactly the five bind mounts of the working directory and the
\* source directory, each read-write with rprivate propagation, each once.
C12_FiveMounts ==
    \A i \in CreateIdx("final") :
        /\ HostConfigAt(i) # <<>>
        /\ Len(HostConfigAt(i)[1].Mounts) = 5
        /\ Range(HostConfigAt(i)[1].Mounts) = FiveMounts(p.Workdir, p.SourceDir)

\* ----------------------------------------------------------------- C13

\* C13: the create request of the probe carries no host configuration (so
\* no mounts, no privileged setting, no auto-remove), no user and no
\* environment, only the resolved image and the configured command as
\* entrypoint; every create request that carries mounts, a user or an
\* environment is one for the final container.
C13_ProbeBare ==
    /\ \A i \in CreateIdx("probe") :
          /\ HostConfigAt(i) = <<>>
          /\ ConfigAt(i).User = <<>>
          /\ ConfigAt(i).Env = <<>>
          /\ sha256 \o ConfigAt(i).Image = p.Image.ID
          /\ ConfigAt(i).Entrypoint = << <<"t">>, <<"-", "f">> >>
    /\ \A i \in 1..Len(log) :
          (/\ log[i].req # <<>>
           /\ \/ HostConfigAt(i) # <<>>
              \/ ConfigAt(i).User # <<>>
              \/ ConfigAt(i).Env # <<>>) => IsCreate(log[i], "final")

\* C13 witness: with the root and privileged flags set the probe was
\* created and, later, the final container was asked for with mounts, a
\* user and an environment.
C13_Witness ==
    /\ p.Root /\ p.Privilege
    /\ \E i \in CreateIdx("probe") : ~log[i].err
    /\ \E i \in CreateIdx("final") :
          /\ HostConfigAt(i) # <<>>
          /\ HostConfigAt(i)[1].Privileged
          /\ HostConfigAt(i)[1].Mounts # <<>>
          /\ ConfigAt(i).User # <<>>
          /\ ConfigAt(i).Env # <<>>

\* ----------------------------------------------------------------- C14

\* The positions at which the daemon created a container of this kind.
CreatedIdx(kind) == { i \in CreateIdx(kind) : ~log[i].err }

\* C14: every stat and every copy-out names the id the probe create
\* returned; every start names the id the final create returned, which is
\* not the id of the probe; every removal names the probe's id, and once
\* the probe has been removed no later call names its id.
C14_IdsNotConflated ==
    \A i \in 1..Len(log) :
        /\ log[i].op \in {"ContainerStatPath", "CopyFromContainer", "ContainerRemove"} =>
              \E j \in CreatedIdx("probe") : j < i /\ log[i].cid = log[j].cid
        /\ log[i].op = "ContainerStart" =>
              /\ \E j \in CreatedIdx("final") : j < i /\ log[i].cid = log[j].cid
              /\ \A j \in CreateIdx("probe") : log[i].cid # log[j].cid
        /\ (log[i].op = "ContainerRemove" /\ ~log[i].err) =>
              \A k \in (i + 1)..Len(log) : log[k].cid # log[i].cid

\* C14 witness: the probe was statted, copied from and removed under one
\* id, and the container started is the one the final create returned,
\* under another id.
C14_Witness ==
    \E i \in 1..Len(log) :
        /\ log[i].op = "ContainerStart" /\ ~log[i].err
        /\ \E r \in 1..(i - 1) :
              /\ log[r].op = "ContainerRemove" /\ ~log[r].err
              /\ log[r].cid # log[i].cid
              /\ \E k \in 1..(r - 1) : log[k].op = "CopyFromContainer"
                                        /\ log[k].cid = log[r].cid

\* ----------------------------------------------------------------- C15

\* The final container was started.
Started == \E i \in 1..Len(log) : log[i].op = "ContainerStart" /\ ~log[i].err

\* C15: once the final container has been started the daemon holds no
\* probe and exactly one container of this run: the final one, under the
\* id that was started, running.
C15_OnlyFinalRunning ==
    Started =>
        /\ Cardinality(containers) = 1
        /\ \A c \in containers :
              /\ c.kind = "final"
              /\ c.status = "running"
              /\ c.id = log[Len(log)].cid
        /\ \A j \in CreatedIdx("probe") : ~containerExists(log[j].cid)

\* C15 witness: the run of an explicit image id has ended started, after
\* the daemon created two containers, and holds one.
C15_Witness ==
    /\ Started
    /\ pc = "done"
    /\ p.ImageId # <<>>
    /\ CreatedIdx("probe") # {}
    /\ nextId = 3
    /\ Cardinality(containers) = 1

\* ----------------------------------------------------------------- C16

StartFailed == \E i \in 1..Len(log) : log[i].op = "ContainerStart" /\ log[i].err

\* C16: an aborted run has made no call after the one that failed. When it
\* aborted with the probe created and no removal asked for, the probe is
\* still on the daemon. When the start of the final container failed, the
\* run is aborted, the start was its last call and the only start, and the
\* final container is still on the daemon, created and not running, the
\* only removal of the run being that of the probe.
C16_NoCompensation ==
    /\ pc = "aborted" => log[Len(log)].err
    /\ (pc = "aborted" /\ Count(LAMBDA e : IsOp(e, "ContainerRemove")) = 0) =>
          \A j \in CreatedIdx("probe") :
              \E c \in containers : c.id = log[j].cid /\ c.kind = "probe"
    /\ StartFailed =>
          /\ pc = "aborted"
          /\ log[Len(log)].op = "ContainerStart"
          /\ Count(LAMBDA e : IsOp(e, "ContainerStart")) = 1
          /\ Count(LAMBDA e : IsOp(e, "ContainerRemove")) = 1
          /\ \A j \in CreatedIdx("final") :
                /\ \E c \in containers : c.id = log[j].cid /\ c.status = "created"
                /\ \A k \in 1..Len(log) :
                      log[k].op = "ContainerRemove" => log[k].cid # log[j].cid

\* C16 witness: the start of the final container failed and the container
\* is on the daemon, created.
C16_Witness ==
    /\ StartFailed
    /\ pc = "aborted"
    /\ \E c \in containers : c.kind = "final" /\ c.status = "created"

\* ----------------------------------------------------------------- C17

\* C17: every create request for the final container carries the user 0:0,
\* whatever uid, gid, user name and group name are configured and whether
\* or not the root flag is set.
C17_UserIsRoot ==
    \A i \in CreateIdx("final") : ConfigAt(i).User = <<"0", ":", "0">>

\* C17 witness: the final container was asked for with the identity
\* ops/staff of uid 500 and gid 600 and without the root flag, and the
\* passwd file of the working directory ends with the line of uid 500.
C17_Witness ==
    /\ CreateIdx("final") # {}
    /\ p.Uname = "ops" /\ p.Uid = 500 /\ p.Gname = "staff" /\ p.Gid = 600
    /\ ~p.Root
    /\ host.passwd.exists
    /\ host.passwd.data # <<>>
    /\ host.passwd.data[Len(host.passwd.data)] = IdentityLine.passwd

\* ----------------------------------------------------------------- C18

\* C18: the environment of every create request for the final container
\* holds no_proxy=<the configured no-proxy hosts>, and holds C_FORCE_ROOT=1
\* exactly when the root flag is set.
C18_Environment ==
    \A i \in CreateIdx("final") :
        /\ <<"no_proxy=", p.NoproxyHosts>> \in Range(ConfigAt(i).Env)
        /\ (<<"C_FORCE_ROOT=1">> \in Range(ConfigAt(i).Env)) <=> p.Root

\* C18 witness: the final container was asked for once with the root flag
\* and the no-proxy hosts repo.example.
C18_Witness ==
    /\ p.Root
    /\ p.NoproxyHosts = "repo.example"
    /\ Cardinality(CreateIdx("final")) = 1

\* ----------------------------------------------------------------- C19

\* C19: every create request for the final container has auto-remove set,
\* and is privileged exactly when the privileged flag is set.
C19_AutoRemovePrivileged ==
    \A i \in CreateIdx("final") :
        /\ HostConfigAt(i) # <<>>
        /\ HostConfigAt(i)[1].AutoRemove
        /\ HostConfigAt(i)[1].Privileged <=> p.Privilege

\* C19 witness: with the privileged flag set the daemon created the final
\* container.
C19_Witness ==
    /\ p.Privilege
    /\ CreatedIdx("final") # {}

\* ----------------------------------------------------------------- C20

\* A host path names something that exists: a directory, or the passwd or
\* group file of the directory the process is in. A relative path is
\* resolved in that directory.
HostPathExists(path) ==
    LET a == Abs(path, host.cwd)
    IN  \/ a \in host.dirs
        \/ \E k \in {"passwd", "group"} :
              a = Join(host.cwd, <<k>>) /\ host[k].exists

\* The host paths of the mount set of the request at i.
HostPathsAt(i) ==
    { m.Source : m \in Range(HostConfigAt(i)[1].Mounts) } \cup
    { b[1] : b \in Range(HostConfigAt(i)[1].Binds) }

\* C20: in every create request for the final container the host paths of
\* the mount set are the working directory, its log, passwd and group, and
\* the source directory, and each is an absolute path that exists on the
\* host.
C20_HostPathsAbsolute ==
    \A i \in CreateIdx("final") :
        /\ HostPathsAt(i) =
              { p.Workdir, Join(p.Workdir, <<"log">>), Join(p.Workdir, <<"passwd">>),
                Join(p.Workdir, <<"group">>), p.SourceDir }
        /\ \A path \in HostPathsAt(i) : IsAbs(path) /\ HostPathExists(path)

\* ----------------------------------------------------------------- C21

\* The calls that ask the daemon for something.
DaemonOps ==
    { "ImageList", "ContainerCreate", "ContainerStatPath", "CopyFromContainer",
      "ContainerRemove", "ContainerStart" }

\* The stat of what (InstallJson or srcDir) was made before position i and
\* found it.
VerifiedBefore(what, i) ==
    \E j \in 1..(i - 1) : log[j].op = "Stat" /\ log[j].arg = what /\ ~log[j].err

\* C21: every call to the daemon comes after a stat that found the install
\* manifest and a stat that found the source directory, and a run in
\* which either stat failed has made no call to the daemon.
C21_ValidatedBeforeCore ==
    /\ \A i \in 1..Len(log) :
          log[i].op \in DaemonOps =>
              VerifiedBefore("InstallJson", i) /\ VerifiedBefore("srcDir", i)
    /\ (\E j \in 1..Len(log) : log[j].op = "Stat" /\ log[j].err) =>
          \A i \in 1..Len(log) : log[i].op \notin DaemonOps

\* ----------------------------------------------------------------- C22

\* C22: with an explicit image id, once the daemon has listed its images
\* the image selected is the first of the list whose id contains the
\* explicit id; when no id contains it no image is selected, the run is
\* aborted and no container is created, whatever the labels are.
C22_ExplicitIdOnly ==
    (p.ImageId # <<>> /\ ImageListed) =>
        IF IdIdx = {}
        THEN p.Image = NoImage /\ containers = {}
             /\ Count(LAMBDA e : IsOp(e, "ContainerCreate")) = 0
        ELSE \E i \in IdIdx : /\ \A k \in IdIdx : i <= k
                              /\ p.Image = ilist[i]

\* ----------------------------------------------------------------- C23

\* The position of the last ':' of a label that has one.
LastColon(label) ==
    CHOOSE i \in 1..Len(label) :
        label[i] = ":" /\ \A j \in (i + 1)..Len(label) : label[j] # ":"

\* A label read as repository:tag at its last ':': the whole repository
\* part contains repo and the tag part contains tag.
RepoTagMatchLast(label, repo, tag) ==
    /\ Contains(SubSeq(label, 1, LastColon(label) - 1), repo)
    /\ Contains(SubSeq(label, LastColon(label) + 1, Len(label)), tag)

\* The positions of the listed images with a label that matches so.
MatchLastIdx ==
    { i \in 1..Len(ilist) :
        \E j \in 1..Len(ilist[i].RepoTags) :
            RepoTagMatchLast(ilist[i].RepoTags[j], Configured, p.Tag) }

\* C23: with no explicit image id, once the daemon has listed its images
\* the image selected is the last one with a label whose repository part,
\* everything before the last ':', contains the configured repository and
\* whose tag part, the text after the last ':', contains the configured
\* tag; no image is selected when no label matches so.
C23_WholeRepositoryPart ==
    (p.ImageId = <<>> /\ ImageListed) =>
        IF MatchLastIdx = {}
        THEN p.Image = NoImage
        ELSE \E i \in MatchLastIdx : /\ \A k \in MatchLastIdx : k <= i
                                     /\ p.Image = ilist[i]

\* ----------------------------------------------------------------- C25

\* C25: no step other than image resolution changes the resolved image,
\* and every create request, for the probe and for the final container,
\* names the id of that one image; the containers on the daemon are of it.
C25_ImageFixed ==
    /\ [][pc # "setImageId" => p'.Image = p.Image]_vars
    /\ [](/\ \A i \in CreateIdx("probe") \cup CreateIdx("final") :
                sha256 \o ConfigAt(i).Image = p.Image.ID
          /\ \A i \in CreateIdx("probe") : \A j \in CreateIdx("final") :
                ConfigAt(i).Image = ConfigAt(j).Image
          /\ \A c \in containers : sha256 \o c.image = p.Image.ID)

\* C25 witness: the daemon created the probe and the final container in a
\* run without an explicit image id.
C25_Witness ==
    /\ p.ImageId = <<>>
    /\ CreatedIdx("probe") # {}
    /\ CreatedIdx("final") # {}

\* ----------------------------------------------------------------- C26

\* C26: the daemon never holds more than one container of the run; every
\* create request, for the probe and for the final container, carries the
\* configured container name; and the final container is asked for only
\* after a removal of the probe has succeeded.
C26_OneContainer ==
    /\ Cardinality(containers) <= 1
    /\ \A c \in containers : c.name = p.Cname
    /\ \A i \in CreateIdx("probe") \cup CreateIdx("final") :
          log[i].req[1].name = p.Cname
    /\ \A i \in CreateIdx("final") :
          \E r \in 1..(i - 1) :
              /\ log[r].op = "ContainerRemove" /\ ~log[r].err
              /\ \E j \in CreatedIdx("probe") : j < r /\ log[j].cid = log[r].cid

\* C26 witness: the final container is about to be started and is the one
\* container on the daemon, the probe having been created and removed.
C26_Witness ==
    /\ pc = "startContainer"
    /\ CreatedIdx("probe") # {}
    /\ \E c \in containers : c.kind = "final"
    /\ ~ \E c \in containers : c.kind = "probe"

\* ----------------------------------------------------------------- C27

\* C27: the environment of every create request for the final container
\* consists of the no_proxy entry, and the C_FORCE_ROOT entry when the
\* root flag is set, and of nothing else; no entry is the empty string.
C27_EnvironmentExact ==
    \A i \in CreateIdx("final") :
        /\ \A k \in 1..Len(ConfigAt(i).Env) : ConfigAt(i).Env[k] # <<>>
        /\ Range(ConfigAt(i).Env) =
              { <<"no_proxy=", p.NoproxyHosts>> } \cup
              (IF p.Root THEN { <<"C_FORCE_ROOT=1">> } ELSE {})
        /\ Len(ConfigAt(i).Env) = IF p.Root THEN 2 ELSE 1

\* ----------------------------------------------------------------- C28

\* The passwd line of the identity rewrite was written.
PasswdLineWritten ==
    \E i \in 1..Len(log) :
        log[i].op = "WriteString" /\ log[i].arg = "passwd" /\ ~log[i].err

\* C28: for each project kind, every create request for the final
\* container mounts the working directory at the home path of the kind,
\* /home/shinto/host, and that path is the home field of the passwd line
\* the run wrote.
C28_HomeIsMounted ==
    \A i \in CreateIdx("final") :
        \E m \in Range(HostConfigAt(i)[1].Mounts) :
            /\ m.Source = p.Workdir
            /\ m.Target = "/home/shinto/host"
            /\ PasswdLineWritten =>
                  host.passwd.data[Len(host.passwd.data)][6] = m.Target

\* C28 witness: the final container of a racdb project was asked for after
\* the passwd line had been written.
C28_Witness ==
    /\ p.Project = "racdb"
    /\ CreateIdx("final") # {}
    /\ PasswdLineWritten

\* ----------------------------------------------------------------- C24

\* The place of a value of pc in the order of main: prepare, the calls of
\* run in order, then the two ends of a run.
Rank(at) ==
    IF at = "prepare" THEN 0
    ELSE IF at = "done" THEN Len(run) + 1
    ELSE IF at = "aborted" THEN Len(run) + 2
    ELSE CHOOSE k \in 1..Len(run) : run[k] = at

\* C24: every step of a run moves it forward in the order of its calls,
\* never back to an earlier call and never to the same call again, and
\* every run comes to an end: aborted, or done with the final container
\* started.
C24_Terminates ==
    /\ [][Rank(pc') > Rank(pc)]_vars
    /\ <>(pc = "aborted" \/ (pc = "done" /\ Started))

\* C24 witness: a run has come to its end started, after a stat of every
\* candidate shell and a copy of both identity files.
C24_Witness ==
    /\ pc = "done"
    /\ Started
    /\ Count(LAMBDA e : IsOp(e, "ContainerStatPath")) = 3
    /\ Count(LAMBDA e : IsOp(e, "CopyFromContainer")) = 2

\* ----------------------------------------------------------------- C29

\* C29: when getTempDir returns before its attempts are used up and the
\* candidate it would draw next is free, the name it returns does not
\* exist in the current directory.
C29_FreshName ==
    /\ pc = "returned"
    /\ tdir.i < 9999
    /\ Stat("cc_" \o nextSuffix(lcg(rand))) = "ENOENT"
    => Stat(tdir.name) = "ENOENT"

====
